---- MODULE Spec2Model ----
(***************************************************************************)
(* Model of rmk/src/input_device/mod.rs: the InputDevice and               *)
(* InputProcessor contracts, the default InputProcessor::run loop and the  *)
(* run_devices! / run_processors! composition macros.                      *)
(*                                                                         *)
(* A composition is a tree of join nodes over leaf run() futures.  One     *)
(* poll of a root walks the tree depth first (fut1 before fut2) and polls  *)
(* every leaf that has not completed.  A device leaf is polled in one      *)
(* step.  A processor leaf runs its loop statement by statement until it   *)
(* hits an await that is not ready.                                        *)
(***************************************************************************)
EXTENDS Integers, Sequences, FiniteSets, TLC

\* ---- bounds of the model ----
MaxEv == 2        \* events a mock device emits
MaxLife == 2      \* poll cycles after which a terminating device returns
MaxPolls == 2     \* polls the executor gives one root (Spec)
MaxLeaves == 8    \* leaves of one composition (SpecWide)
MaxDelay == 2     \* poll cycles before a device emits its event (SpecOrder)
MaxSpin == 2      \* steps followed inside a loop that never yields (SpecSpin)
DevCounts == {1, 2}     \* devices handed to run_devices! (Spec)
ProcCounts == {1, 2}    \* processors handed to run_processors! (Spec)
Caps == {1, 2}          \* capacity of an event channel

VARIABLES
    devCfg,     \* devCfg[i]: [delay, nev, life, chan] of device i (life 0: never returns)
    dev,        \* dev[i]: [pc, ticks, emitted], the position of device i's run()
    proc,       \* proc[j]: [pc, event, remaining], the position of processor j's run()
    chan,       \* chan[j]: the event channel read by processor j
    cap,        \* capacity of every event channel and of the report sink
    sink,       \* the report sink (HID writer queue)
    tree,       \* tree[r]: the future built by run_devices! / run_processors!
    active,     \* the root being polled, or "none"
    agenda,     \* leaves still to poll in the poll in progress
    polls,      \* polls[r]: polls of root r started so far
    pollCap,    \* polls the executor gives one root
    done,       \* leaves whose run() has returned
    rootDone,   \* roots that have reported Ready
    polled,     \* polled[x]: times leaf x has been polled
    doneAt,     \* doneAt[x]: the poll of its root in which leaf x completed (0: not yet)
    leafRes,    \* leafRes[x]: the poll results of leaf x, in order
    rootRes,    \* rootRes[r]: the poll results of root r, in order
    sendLog,    \* sendLog[i]: events device i has handed to send_event, each with
                \* the poll of the devices root in which it did
    accepted,   \* accepted[j]: events channel j has accepted, in order
    readLog,    \* readLog[j]: events read_event has returned to processor j
    procLog,    \* procLog[j]: events processor j has passed to process
    reports     \* reports handed to send_report and accepted by the sink, in order

vars == <<devCfg, dev, proc, chan, cap, sink, tree, active, agenda, polls, pollCap,
          done, rootDone, polled, doneAt, leafRes, rootRes, sendLog, accepted,
          readLog, procLog, reports>>

Roots == {"devices", "processors"}

D(i) == <<"dev", i>>
P(j) == <<"proc", j>>

\* The argument lists d1, ..., dn and p1, ..., pn of the two macros.
DevList(n) == [k \in 1..n |-> D(k)]
ProcList(n) == [k \in 1..n |-> P(k)]

\* ---- the composition macros ----

Leaf(x) == [node |-> "leaf", inst |-> x]
Join(a, b) == [node |-> "join", fut1 |-> a, fut2 |-> b]

\* (a multiple-devices arm that forwards only $second and forgets $rest)
run_devices_drop_rest(ds) ==
    IF Len(ds) = 1 THEN Leaf(ds[1])
    ELSE Join(Leaf(ds[1]), Leaf(ds[2]))

\* (a multiple-devices arm that recurses without joining $first)
RECURSIVE run_devices_skip_first(_)
run_devices_skip_first(ds) ==
    IF Len(ds) = 1 THEN Leaf(ds[1])
    ELSE run_devices_skip_first(Tail(ds))

\* (a single-device arm that goes through join like the other arm)
RECURSIVE run_devices_wrap_single(_)
run_devices_wrap_single(ds) ==
    IF Len(ds) = 1 THEN Join(Leaf(ds[1]), Leaf(ds[1]))
    ELSE Join(Leaf(ds[1]), run_devices_wrap_single(Tail(ds)))

\* (a multiple-devices arm that passes $first on to the recursive call)
RECURSIVE run_devices_dup_first(_)
run_devices_dup_first(ds) ==
    IF Len(ds) = 1 THEN Leaf(ds[1])
    ELSE Join(Leaf(ds[1]), Join(Leaf(ds[1]), run_devices_dup_first(Tail(ds))))

\* (a multiple-devices arm that joins the rest before $first)
RECURSIVE run_devices_reversed(_)
run_devices_reversed(ds) ==
    IF Len(ds) = 1 THEN Leaf(ds[1])
    ELSE Join(run_devices_reversed(Tail(ds)), Leaf(ds[1]))

\* (an expansion that nests to the left: join(run_devices!(front...), last.run()))
RECURSIVE run_devices_left(_)
run_devices_left(ds) ==
    IF Len(ds) = 1 THEN Leaf(ds[1])
    ELSE Join(run_devices_left(SubSeq(ds, 1, Len(ds) - 1)), Leaf(ds[Len(ds)]))

\* run_devices!: a single device is its own run(); otherwise
\* join(first.run(), run_devices!(second, rest...)).
RECURSIVE run_devices(_)
run_devices(ds) ==
    IF Len(ds) = 1 THEN Leaf(ds[1])
    ELSE Join(Leaf(ds[1]), run_devices(Tail(ds)))

\* (a processors expansion that nests to the left)
RECURSIVE run_processors_left(_)
run_processors_left(ps) ==
    IF Len(ps) = 1 THEN Leaf(ps[1])
    ELSE Join(run_processors_left(SubSeq(ps, 1, Len(ps) - 1)), Leaf(ps[Len(ps)]))

\* run_processors!: the same expansion over processors.
RECURSIVE run_processors(_)
run_processors(ps) ==
    IF Len(ps) = 1 THEN Leaf(ps[1])
    ELSE Join(Leaf(ps[1]), run_processors(Tail(ps)))

\* ---- the join primitive ----

\* A join is done once both of its sides are; a leaf once its run() returned.
RECURSIVE IsDone(_, _)
IsDone(t, dn) ==
    IF t.node = "leaf" THEN t.inst \in dn
    ELSE IsDone(t.fut1, dn) /\ IsDone(t.fut2, dn)

\* The leaves one poll of t reaches, in the order it polls them: fut1 then
\* fut2, skipping a side that has already completed.
RECURSIVE PollOrder(_, _)
PollOrder(t, dn) ==
    IF t.node = "leaf" THEN (IF t.inst \in dn THEN <<>> ELSE <<t.inst>>)
    ELSE PollOrder(t.fut1, dn) \o PollOrder(t.fut2, dn)

\* All leaves of t, left to right.
RECURSIVE LeavesOf(_)
LeavesOf(t) ==
    IF t.node = "leaf" THEN <<t.inst>>
    ELSE LeavesOf(t.fut1) \o LeavesOf(t.fut2)

\* Number of join nodes in t.
RECURSIVE JoinCount(_)
JoinCount(t) ==
    IF t.node = "leaf" THEN 0
    ELSE 1 + JoinCount(t.fut1) + JoinCount(t.fut2)

Range(s) == {s[k] : k \in 1..Len(s)}

Insts == {D(i) : i \in 1..Len(devCfg)} \cup {P(j) : j \in 1..Len(proc)}
RootList(r) == IF r = "devices" THEN DevList(Len(devCfg)) ELSE ProcList(Len(proc))
RootOf(x) == IF x[1] = "dev" THEN "devices" ELSE "processors"

\* ---- initial states ----

DevCfgs == [delay : {1}, nev : 0..MaxEv, life : 0..MaxLife]

Dev0 == [pc |-> "tick", ticks |-> 0, emitted |-> 0, spins |-> 0]
Proc0 == [pc |-> "read", event |-> <<>>, remaining |-> 0]

\* The state right after the two compositions are built from the devices
\* cfgs (device i feeds channel ((i-1) % np) + 1) and np processors.
Build(cfgs, np, c, pc) ==
    /\ devCfg = [i \in 1..Len(cfgs) |->
                    [delay |-> cfgs[i].delay, nev |-> cfgs[i].nev,
                     life |-> cfgs[i].life, chan |-> ((i - 1) % np) + 1]]
    /\ dev = [i \in 1..Len(cfgs) |-> Dev0]
    /\ proc = [j \in 1..np |-> Proc0]
    /\ chan = [j \in 1..np |-> <<>>]
    /\ cap = c
    /\ sink = <<>>
    /\ tree = [devices |-> run_devices(DevList(Len(cfgs))),
               processors |-> run_processors(ProcList(np))]
    /\ active = "none"
    /\ agenda = <<>>
    /\ polls = [r \in Roots |-> 0]
    /\ pollCap = pc
    /\ done = {}
    /\ rootDone = {}
    /\ polled = [x \in {D(i) : i \in 1..Len(cfgs)} \cup {P(j) : j \in 1..np} |-> 0]
    /\ doneAt = [x \in {D(i) : i \in 1..Len(cfgs)} \cup {P(j) : j \in 1..np} |-> 0]
    /\ leafRes = [x \in {D(i) : i \in 1..Len(cfgs)} \cup {P(j) : j \in 1..np} |-> <<>>]
    /\ rootRes = [r \in Roots |-> <<>>]
    /\ sendLog = [i \in 1..Len(cfgs) |-> <<>>]
    /\ accepted = [j \in 1..np |-> <<>>]
    /\ readLog = [j \in 1..np |-> <<>>]
    /\ procLog = [j \in 1..np |-> <<>>]
    /\ reports = <<>>

Init ==
    \E nd \in DevCounts, np \in ProcCounts, c \in Caps :
        \E cfgs \in [1..nd -> DevCfgs] :
            Build(cfgs, np, c, MaxPolls)

\* ---- the executor ----

\* (an executor that takes the thread from a poll still running)
StartPoll_preempt(r) ==
    /\ r \notin rootDone
    /\ polls[r] < pollCap
    /\ active' = r
    /\ agenda' = PollOrder(tree[r], done)
    /\ polls' = [polls EXCEPT ![r] = @ + 1]
    /\ UNCHANGED <<devCfg, dev, proc, chan, cap, sink, tree, pollCap, done, rootDone,
                   polled, doneAt, leafRes, rootRes, sendLog, accepted, readLog,
                   procLog, reports>>

\* The executor polls a root that has not completed: one thread, so only
\* when no poll is running.
StartPoll(r) ==
    /\ active = "none"
    /\ r \notin rootDone
    /\ polls[r] < pollCap
    /\ active' = r
    /\ agenda' = PollOrder(tree[r], done)
    /\ polls' = [polls EXCEPT ![r] = @ + 1]
    /\ UNCHANGED <<devCfg, dev, proc, chan, cap, sink, tree, pollCap, done, rootDone,
                   polled, doneAt, leafRes, rootRes, sendLog, accepted, readLog,
                   procLog, reports>>

\* Every leaf of the poll has been polled: the root reports Ready when the
\* whole tree is done, Pending otherwise.
EndPoll ==
    /\ active # "none"
    /\ agenda = <<>>
    /\ LET ready == IsDone(tree[active], done) IN
        /\ rootDone' = IF ready THEN rootDone \cup {active} ELSE rootDone
        /\ rootRes' = [rootRes EXCEPT ![active] =
                          Append(@, IF ready THEN "ready" ELSE "pending")]
    /\ active' = "none"
    /\ UNCHANGED <<devCfg, dev, proc, chan, cap, sink, tree, agenda, polls, pollCap,
                   done, polled, doneAt, leafRes, sendLog, accepted, readLog,
                   procLog, reports>>

\* A leaf poll returns: "pending" leaves it suspended, "ready" completes it.
LeafReturns(x, res) ==
    /\ agenda' = Tail(agenda)
    /\ polled' = [polled EXCEPT ![x] = @ + 1]
    /\ leafRes' = [leafRes EXCEPT ![x] = Append(@, res)]
    /\ done' = IF res = "ready" THEN done \cup {x} ELSE done
    /\ doneAt' = IF res = "ready" THEN [doneAt EXCEPT ![x] = polls[RootOf(x)]] ELSE doneAt

\* ---- the event channel ----

\* The channel is ordered and bounded: a send is accepted while there is
\* room and queues the event behind the ones already there; a receive takes
\* the oldest event.
HasRoom(q, c) == Len(q) < c
\* (a channel that hands out the newest event first)
ChanSendFront(q, ev) == <<ev>> \o q
ChanSend(q, ev) == Append(q, ev)
ChanFront(q) == Head(q)
ChanRecv(q) == Tail(q)

\* ---- a mock device ----

\* One poll of device i's run():
\*   loop { ticks += 1;
\*          if ticks % delay == 0 && emitted < nev { send_event(next).await }
\*          if ticks == life { return }
\*          yield_now().await }
\* send_event suspends while the channel is full.
DevicePoll(i) ==
    /\ active # "none"
    /\ agenda # <<>>
    /\ Head(agenda) = D(i)
    /\ dev[i].pc # "spin"
    /\ LET d == dev[i]
           c == devCfg[i]
           t == IF d.pc = "tick" THEN d.ticks + 1 ELSE d.ticks
           calls == d.pc = "tick" /\ t % c.delay = 0 /\ d.emitted < c.nev
           wants == d.pc = "send" \/ calls
           ev == <<i, d.emitted + 1>>
           room == HasRoom(chan[c.chan], cap)
           sent == wants /\ room
           blocked == wants /\ ~room
           res == IF ~blocked /\ t = c.life THEN "ready" ELSE "pending"
       IN
        /\ sendLog' = IF calls
                      THEN [sendLog EXCEPT ![i] = Append(@, [ev |-> ev, poll |-> polls[active]])]
                      ELSE sendLog
        /\ chan' = IF sent THEN [chan EXCEPT ![c.chan] = ChanSend(@, ev)] ELSE chan
        /\ accepted' = IF sent THEN [accepted EXCEPT ![c.chan] = Append(@, ev)] ELSE accepted
        /\ dev' = [dev EXCEPT ![i] =
                      [pc |-> IF blocked THEN "send"
                              ELSE IF res = "ready" THEN "done" ELSE "tick",
                       ticks |-> t,
                       emitted |-> IF sent THEN d.emitted + 1 ELSE d.emitted,
                       spins |-> d.spins]]
        /\ LeafReturns(D(i), res)
    /\ UNCHANGED <<devCfg, proc, cap, sink, tree, active, polls, pollCap, rootDone,
                   rootRes, readLog, procLog, reports>>

\* ---- the default InputProcessor::run ----
\*   loop { let event = self.read_event().await; self.process(event).await; }

\* (a loop that reads the next event without processing the one it got)
run_read_skip(p, ev) == [pc |-> "read", event |-> <<>>, remaining |-> 0]

\* `let event = self.read_event().await` has resolved with ev.
run_read(p, ev) == [pc |-> "got", event |-> ev, remaining |-> 0]

\* (a loop that calls process without awaiting it and goes on to read)
run_process_detached(p, n) == [pc |-> "read", event |-> p.event, remaining |-> n]

\* `self.process(event)` is called; this call is to send n reports.
run_process(p, n) == [pc |-> "process", event |-> p.event, remaining |-> n]

\* (a loop that calls process again on the event it already processed)
run_loop_again(p) == [pc |-> "got", event |-> p.event, remaining |-> 0]

\* (a run() that returns after its first event instead of looping)
run_loop_once(p) == [pc |-> "done", event |-> <<>>, remaining |-> 0]

\* process has returned: the loop goes back to read_event.
run_loop(p) == [pc |-> "read", event |-> <<>>, remaining |-> 0]

\* The result of a poll of run() that can go no further.
run_result(p) == IF p.pc = "done" THEN "ready" ELSE "pending"

Running(j) ==
    /\ active # "none"
    /\ agenda # <<>>
    /\ Head(agenda) = P(j)

\* read_event resolves with the oldest event of the processor's channel.
ProcReadEvent(j) ==
    /\ Running(j)
    /\ proc[j].pc = "read"
    /\ chan[j] # <<>>
    /\ proc' = [proc EXCEPT ![j] = run_read(@, ChanFront(chan[j]))]
    /\ chan' = [chan EXCEPT ![j] = ChanRecv(@)]
    /\ readLog' = [readLog EXCEPT ![j] = Append(@, ChanFront(chan[j]))]
    /\ UNCHANGED <<devCfg, dev, cap, sink, tree, active, agenda, polls, pollCap, done,
                   rootDone, polled, doneAt, leafRes, rootRes, sendLog, accepted,
                   procLog, reports>>

\* The reports the mock processor j sends for event ev: none, one or two,
\* depending on the event.
ReportsFor(j, ev) == (j + ev[1] + ev[2] + 1) % 3

\* process(event) is called with the event held by the loop.
ProcCallProcess(j) ==
    /\ Running(j)
    /\ proc[j].pc = "got"
    /\ proc' = [proc EXCEPT ![j] = run_process(@, ReportsFor(j, proc[j].event))]
    /\ procLog' = [procLog EXCEPT ![j] = Append(@, proc'[j].event)]
    /\ UNCHANGED <<devCfg, dev, chan, cap, sink, tree, active, agenda, polls, pollCap,
                   done, rootDone, polled, doneAt, leafRes, rootRes, sendLog, accepted,
                   readLog, reports>>

\* process hands its next report to send_report and the sink accepts it.
ProcSendReport(j) ==
    /\ Running(j)
    /\ proc[j].pc = "process"
    /\ proc[j].remaining > 0
    /\ HasRoom(sink, cap)
    /\ LET rep == <<j, proc[j].event, proc[j].remaining>> IN
        /\ sink' = Append(sink, rep)
        /\ reports' = Append(reports, rep)
    /\ proc' = [proc EXCEPT ![j].remaining = @ - 1]
    /\ UNCHANGED <<devCfg, dev, chan, cap, tree, active, agenda, polls, pollCap, done,
                   rootDone, polled, doneAt, leafRes, rootRes, sendLog, accepted,
                   readLog, procLog>>

\* process has sent all its reports and returns.
ProcReturn(j) ==
    /\ Running(j)
    /\ proc[j].pc = "process"
    /\ proc[j].remaining = 0
    /\ proc' = [proc EXCEPT ![j] = run_loop(@)]
    /\ UNCHANGED <<devCfg, dev, chan, cap, sink, tree, active, agenda, polls, pollCap,
                   done, rootDone, polled, doneAt, leafRes, rootRes, sendLog, accepted,
                   readLog, procLog, reports>>

\* The await the processor stands at is not ready (or run() is over).
Stuck(j) ==
    \/ proc[j].pc = "read" /\ chan[j] = <<>>
    \/ proc[j].pc = "process" /\ proc[j].remaining > 0 /\ ~HasRoom(sink, cap)
    \/ proc[j].pc = "done"

\* The poll of the processor's run() returns to the join that polled it.
ProcYield(j) ==
    /\ Running(j)
    /\ Stuck(j)
    /\ LeafReturns(P(j), run_result(proc[j]))
    /\ UNCHANGED <<devCfg, dev, proc, chan, cap, sink, tree, active, polls, pollCap,
                   rootDone, rootRes, sendLog, accepted, readLog, procLog, reports>>

\* ---- the report transport ----

\* Between two polls the HID writer takes the oldest report off the sink.
Transport ==
    /\ active = "none"
    /\ sink # <<>>
    /\ sink' = Tail(sink)
    /\ UNCHANGED <<devCfg, dev, proc, chan, cap, tree, active, agenda, polls, pollCap,
                   done, rootDone, polled, doneAt, leafRes, rootRes, sendLog, accepted,
                   readLog, procLog, reports>>

Next ==
    \/ \E r \in Roots : StartPoll(r)
    \/ EndPoll
    \/ \E i \in 1..Len(devCfg) : DevicePoll(i)
    \/ \E j \in 1..Len(proc) : ProcReadEvent(j)
    \/ \E j \in 1..Len(proc) : ProcCallProcess(j)
    \/ \E j \in 1..Len(proc) : ProcSendReport(j)
    \/ \E j \in 1..Len(proc) : ProcReturn(j)
    \/ \E j \in 1..Len(proc) : ProcYield(j)
    \/ Transport

Spec == Init /\ [][Next]_vars

\* ---- a device that never yields ----

\* The poll of device i runs into a loop with no await in it (for instance
\* `loop { if self.pin_is_low() { break } }`) and goes round it: the poll
\* does not return, the leaf stays at the head of the poll.  MaxSpin rounds
\* are followed.
DeviceSpin(i) ==
    /\ active # "none"
    /\ agenda # <<>>
    /\ Head(agenda) = D(i)
    /\ dev[i].pc \in {"tick", "spin"}
    /\ dev[i].spins < MaxSpin
    /\ dev' = [dev EXCEPT ![i] = [@ EXCEPT !.pc = "spin", !.spins = @ + 1]]
    /\ UNCHANGED <<devCfg, proc, chan, cap, sink, tree, active, agenda, polls, pollCap,
                   done, rootDone, polled, doneAt, leafRes, rootRes, sendLog, accepted,
                   readLog, procLog, reports>>

NextSpin ==
    \/ Next
    \/ \E i \in 1..Len(devCfg) : DeviceSpin(i)

SpecSpin == Init /\ [][NextSpin]_vars

\* ---- wide compositions ----

\* Device i of a wide composition: only the first device emits an event.
\* Either no device ever returns (all), or the device numbered stay never
\* returns and the others return after one or two poll cycles.
WideCfg(i, stay, all) ==
    [delay |-> 1, nev |-> IF i = 1 THEN 1 ELSE 0,
     life |-> IF all \/ i = stay THEN 0 ELSE 1 + (i % 2)]

InitWide ==
    \E nd \in 1..MaxLeaves, np \in 1..MaxLeaves :
        \E stay \in 0..nd, all \in BOOLEAN :
            /\ all => stay = 0
            /\ Build([i \in 1..nd |-> WideCfg(i, stay, all)], np, 1, MaxPolls + 1)

SpecWide == InitWide /\ [][Next]_vars

\* ---- the two-device scenario ----

\* D1 emits one event after 2 poll cycles, D2 one event after 5; each either
\* idles forever afterwards or returns right after its event.
ScenarioDelays == <<2, 5>>

InitScenario ==
    \E np \in ProcCounts, c \in Caps, stop1 \in BOOLEAN, stop2 \in BOOLEAN :
        Build(<<[delay |-> ScenarioDelays[1], nev |-> 1,
                 life |-> IF stop1 THEN ScenarioDelays[1] ELSE 0],
                [delay |-> ScenarioDelays[2], nev |-> 1,
                 life |-> IF stop2 THEN ScenarioDelays[2] ELSE 0]>>,
              np, c, ScenarioDelays[2] + 1)

SpecScenario == InitScenario /\ [][Next]_vars

\* ---- two devices, one event each ----

\* Each of two devices emits its one event after 1..MaxDelay poll cycles and
\* idles afterwards.
InitOrder ==
    \E np \in ProcCounts, c \in Caps, d1 \in 1..MaxDelay, d2 \in 1..MaxDelay :
        Build(<<[delay |-> d1, nev |-> 1, life |-> 0],
                [delay |-> d2, nev |-> 1, life |-> 0]>>,
              np, c, MaxDelay + 1)

SpecOrder == InitOrder /\ [][Next]_vars

\* ---- helpers of the properties ----

IsPrefix(s, t) == Len(s) <= Len(t) /\ \A k \in 1..Len(s) : s[k] = t[k]

Procs == 1..Len(proc)
Devs == 1..Len(devCfg)

\* The event the loop of processor j holds between read_event and process.
InFlight(j) == IF proc[j].pc = "got" THEN <<proc[j].event>> ELSE <<>>

\* ---- C1 ----
\* C1: the default run loop passes to process exactly the events read_event
\* returned, once each and in the same order: at every moment the events
\* passed to process are a prefix of the events read, and the only event read
\* and not yet passed is the one the loop holds between the two calls.
C1_ProcessFollowsRead ==
    \A j \in Procs :
        /\ IsPrefix(procLog[j], readLog[j])
        /\ readLog[j] = procLog[j] \o InFlight(j)

\* A processor has read two events and passed both to process.
C1_Witness ==
    \E j \in Procs : Len(procLog[j]) >= 2 /\ procLog[j] = readLog[j]

\* ---- C2 ----
\* C2: for compositions of 1 to MaxLeaves leaves built by run_devices! and
\* run_processors!, one poll of the composition advances every leaf that has
\* not completed exactly once: between polls every live leaf has been polled
\* as often as its root, a completed leaf as often as the poll it completed
\* in, and the progress counter of every live device equals the number of
\* polls of the devices root.
C2_NoLeafStarved ==
    active = "none" =>
        /\ \A x \in Insts :
              polled[x] = IF x \in done THEN doneAt[x] ELSE polls[RootOf(x)]
        /\ \A i \in Devs :
              (D(i) \notin done /\ dev[i].pc = "tick") => dev[i].ticks = polls["devices"]

\* A composition of MaxLeaves devices none of which returns has been polled
\* twice and every device has advanced twice.
C2_Witness ==
    /\ active = "none"
    /\ Len(devCfg) = MaxLeaves
    /\ polls["devices"] = 2
    /\ \A i \in Devs : devCfg[i].life = 0 /\ dev[i].ticks = 2

\* ---- C3 ----
\* T1 = device a returns after life poll cycles, T2 = device b never returns.
IsPair(a, b) ==
    /\ Len(devCfg) = 2
    /\ a # b
    /\ devCfg[a].life > 0
    /\ devCfg[b].life = 0

\* C3: in a composition of T1 and T2 the root never reports Ready; T1
\* completes in the poll of the root whose number is the number of polls T1
\* itself took, which for a T1 that sends no event is exactly its k = life;
\* and T2 has advanced once in every poll of the root.
C3_FiniteWithInfinite ==
    \A a \in Devs, b \in Devs :
        IsPair(a, b) =>
            /\ "devices" \notin rootDone
            /\ \A n \in 1..Len(rootRes["devices"]) : rootRes["devices"][n] = "pending"
            /\ D(a) \in done => doneAt[D(a)] = polled[D(a)]
            /\ devCfg[a].nev = 0 =>
                  /\ D(a) \in done => doneAt[D(a)] = devCfg[a].life
                  /\ (active = "none" /\ polls["devices"] >= devCfg[a].life) => D(a) \in done
            /\ D(b) \notin done
            /\ active = "none" => polled[D(b)] = polls["devices"]

\* T1, listed first, has completed in the second poll while T2 advanced twice.
C3_Witness ==
    /\ IsPair(1, 2)
    /\ devCfg[1].life = 2
    /\ D(1) \in done
    /\ active = "none"
    /\ polls["devices"] = 2
    /\ dev[2].ticks = 2

\* ---- C4 ----
\* C4: a composition of a single leaf is that leaf: the tree built has no
\* join node, a poll of the root polls the leaf once, and the root's poll
\* results are the leaf's poll results, one for one.
C4_SingleIsIdentity ==
    \A r \in Roots :
        Len(RootList(r)) = 1 =>
            LET x == RootList(r)[1] IN
            /\ JoinCount(tree[r]) = 0
            /\ LeavesOf(tree[r]) = <<x>>
            /\ IF active = r /\ agenda = <<>>
               THEN /\ Len(leafRes[x]) = Len(rootRes[r]) + 1
                    /\ IsPrefix(rootRes[r], leafRes[x])
               ELSE rootRes[r] = leafRes[x]
            /\ active = r => agenda \in {<<>>, <<x>>}

\* A single device has returned in its second poll and the root reported
\* Pending, then Ready.
C4_Witness ==
    /\ Len(devCfg) = 1
    /\ rootRes["devices"] = <<"pending", "ready">>
    /\ leafRes[D(1)] = <<"pending", "ready">>

\* ---- C5 ----
FromDev(s, i) == SelectSeq(s, LAMBDA e : e[1] = i)
SentEvents(i) == [k \in 1..Len(sendLog[i]) |-> sendLog[i][k].ev]

\* C5: the events of one device reach the consumer in the order the device
\* handed them to send_event: the events of device i among those read_event
\* returned are a prefix of the events device i sent, whatever the other
\* devices and the processor do in between.
C5_FifoPerDevice ==
    \A i \in Devs :
        IsPrefix(FromDev(readLog[devCfg[i].chan], i), SentEvents(i))

\* Two devices share a channel; the consumer has read both events of one of
\* them and at least one event of the other.
C5_Witness ==
    \E i \in Devs :
        /\ Len(devCfg) = 2
        /\ Len(proc) = 1
        /\ FromDev(readLog[1], i) = <<<<i, 1>>, <<i, 2>>>>
        /\ Len(readLog[1]) >= 3

\* ---- C6 ----
\* C6: D1 emits after 2 poll cycles and D2 after 5: once the composed task
\* has been polled 5 times both devices have handed their event to
\* send_event, D1 in poll 2 and D2 in poll 5, so D1 no later than D2.
C6_Scenario ==
    (active = "none" /\ polls["devices"] >= ScenarioDelays[2]) =>
        /\ Len(sendLog[1]) = 1
        /\ Len(sendLog[2]) = 1
        /\ sendLog[1][1].poll = ScenarioDelays[1]
        /\ sendLog[2][1].poll = ScenarioDelays[2]
        /\ sendLog[1][1].poll <= sendLog[2][1].poll

\* The fifth poll of the composition has just returned with both events sent.
C6_Witness ==
    /\ active = "none"
    /\ polls["devices"] = ScenarioDelays[2]
    /\ Len(sendLog[1]) = 1
    /\ Len(sendLog[2]) = 1

\* ---- C7 ----
NoRepeat(s) == \A k1 \in 1..Len(s), k2 \in 1..Len(s) : s[k1] = s[k2] => k1 = k2

\* The event a device suspended in send_event still holds.
Held(i) == IF dev[i].pc = "send" THEN <<<<i, dev[i].emitted + 1>>>> ELSE <<>>

\* C7: nothing is lost or duplicated between a device and its processor: the
\* events a channel accepted are, in order, the events passed to process,
\* the event the loop holds, and the events still in the channel; no event
\* occurs twice; the channel never holds more than its capacity; and every
\* event handed to send_event was accepted or is held by its suspended sender.
C7_NoLossNoDuplicate ==
    /\ \A j \in Procs :
        /\ accepted[j] = (procLog[j] \o InFlight(j)) \o chan[j]
        /\ NoRepeat(accepted[j])
        /\ Len(chan[j]) <= cap
    /\ \A i \in Devs :
        SentEvents(i) = FromDev(accepted[devCfg[i].chan], i) \o Held(i)

\* A device is suspended in send_event on a full channel while the processor
\* of that channel has already processed an earlier event.
C7_Witness ==
    \E i \in Devs :
        /\ dev[i].pc = "send"
        /\ Len(chan[devCfg[i].chan]) = cap
        /\ Len(procLog[devCfg[i].chan]) >= 1

\* ---- C8 ----
Occurrences(s, x) == Cardinality({k \in 1..Len(s) : s[k] = x})

\* C8: every device and processor instance is the leaf of exactly one run()
\* future of its own composition and of none of the other one, is on the
\* agenda of a poll at most once, and has been polled at most once per poll
\* of its root.
C8_SingleOwner ==
    \A x \in Insts :
        /\ Occurrences(LeavesOf(tree[RootOf(x)]), x) = 1
        /\ \A r \in Roots \ {RootOf(x)} : Occurrences(LeavesOf(tree[r]), x) = 0
        /\ Occurrences(agenda, x) <= 1
        /\ polled[x] <= polls[RootOf(x)]

\* A poll of a composition of at least three devices is under way: the
\* first device has been polled, others are still to be.
C8_Witness ==
    /\ active = "devices"
    /\ Len(devCfg) >= 3
    /\ polled[D(1)] = polls["devices"]
    /\ Len(agenda) >= 2

\* ---- C9 ----
AllDone(r) == \A x \in Range(RootList(r)) : x \in done

\* C9: a composition has reported Ready exactly when a poll of it has ended
\* with every one of its leaves completed; every poll that ended with a leaf
\* still running reported Pending, so Ready is the last result only.
C9_ReadyIffAllDone ==
    \A r \in Roots :
        /\ r \in rootDone <=> (active # r /\ polls[r] > 0 /\ AllDone(r))
        /\ \A k \in 1..Len(rootRes[r]) :
              rootRes[r][k] = "ready" <=> (k = Len(rootRes[r]) /\ r \in rootDone)

\* A composition of at least three devices has reported Ready after one
\* Pending.
C9_Witness ==
    /\ Len(devCfg) >= 3
    /\ "devices" \in rootDone
    /\ rootRes["devices"] = <<"pending", "ready">>

\* ---- C10 ----
\* C10: the default run never completes: no processor leaf ever reports
\* Ready, the processors root never completes, and a processor that is not
\* being polled is suspended at read_event or inside process at a
\* send_report; it is in no other (error) position.
C10_RunNeverCompletes ==
    /\ "processors" \notin rootDone
    /\ \A j \in Procs :
        /\ P(j) \notin done
        /\ proc[j].pc \in {"read", "got", "process"}
        /\ \A k \in 1..Len(leafRes[P(j)]) : leafRes[P(j)][k] = "pending"
        /\ ~Running(j) =>
              \/ proc[j].pc = "read"
              \/ proc[j].pc = "process" /\ proc[j].remaining > 0

\* A processor has processed an event, was polled again and is suspended at
\* read_event with nothing to read.
C10_Witness ==
    \E j \in Procs :
        /\ active = "none"
        /\ Len(procLog[j]) >= 1
        /\ proc[j].pc = "read"
        /\ chan[j] = <<>>
        /\ polled[P(j)] >= 2

\* ---- C11 ----
\* The leaves of root r that have not completed, in argument order.
LiveList(r) == SelectSeq(RootList(r), LAMBDA x : x \notin done)

C15_ArgumentOrder ==
    \A r \in Roots :
        LET L == RootList(r) IN
        /\ \A x \in Range(L) : polled[x] <= polls[r]
        /\ active = r =>
              /\ \A k1 \in 1..Len(agenda), k2 \in 1..Len(agenda) :
                    k1 < k2 => agenda[k1][2] < agenda[k2][2]
              /\ \A a \in 1..Len(L), b \in 1..Len(L) :
                    (a < b /\ polled[L[b]] = polls[r]) =>
                        \/ polled[L[a]] = polls[r]
                        \/ L[a] \in done /\ doneAt[L[a]] < polls[r]

\* A poll of at least three devices is under way: the first two have been
\* polled, the third is next.
C15_Witness ==
    /\ active = "devices"
    /\ Len(devCfg) >= 3
    /\ polled[D(1)] = polls["devices"]
    /\ polled[D(2)] = polls["devices"]
    /\ agenda # <<>>
    /\ agenda[1] = D(3)

\* ---- C16 ----
\* C16: a processor has at most one event in flight: read_event resolves
\* only while the loop stands at read_event with no process call pending and
\* every event read so far passed to process; process is called only with
\* the one event read since the last call.
C16_OneEventInFlight ==
    [][\A j \in Procs :
          /\ readLog'[j] # readLog[j] =>
                /\ proc[j].pc = "read"
                /\ proc[j].remaining = 0
                /\ readLog[j] = procLog[j]
          /\ procLog'[j] # procLog[j] =>
                /\ Len(readLog[j]) = Len(procLog[j]) + 1
                /\ procLog'[j] = readLog[j]
      ]_vars

\* A processor is suspended inside process, with a report still to send,
\* while the next event already waits in its channel.
C16_Witness ==
    \E j \in Procs :
        /\ active = "none"
        /\ proc[j].pc = "process"
        /\ proc[j].remaining > 0
        /\ chan[j] # <<>>

\* ---- C17 ----
\* The number of reports processor j has sent for event e.
CountFor(j, e) ==
    Cardinality({k \in 1..Len(reports) : reports[k][1] = j /\ reports[k][2] = e})

\* The reports of processor j, in the order the sink accepted them.
ReportsOf(j) == SelectSeq(reports, LAMBDA r : r[1] = j)

\* The place of event e in the sequence s (0 if it is not there).
Place(s, e) == IF \E k \in 1..Len(s) : s[k] = e
               THEN CHOOSE k \in 1..Len(s) : s[k] = e
               ELSE 0

\* C17: the reports of a processor leave it grouped by event and in event
\* order: every report belongs to an event passed to process, reports follow
\* the order of their events, every event read before the latest one has all
\* its reports sent (none, one or several), and the event being processed
\* has sent all but the remaining ones.
C17_ReportsGroupedByEvent ==
    \A j \in Procs :
        LET R == ReportsOf(j) IN
        /\ \A k \in 1..Len(R) : Place(procLog[j], R[k][2]) > 0
        /\ \A k1 \in 1..Len(R), k2 \in 1..Len(R) :
              k1 < k2 => Place(procLog[j], R[k1][2]) <= Place(procLog[j], R[k2][2])
        /\ \A k \in 1..Len(readLog[j]) :
              k < Len(readLog[j]) =>
                  CountFor(j, readLog[j][k]) = ReportsFor(j, readLog[j][k])
        /\ proc[j].pc = "process" =>
              CountFor(j, proc[j].event) = ReportsFor(j, proc[j].event) - proc[j].remaining
        /\ (proc[j].pc = "read" /\ procLog[j] # <<>>) =>
              CountFor(j, procLog[j][Len(procLog[j])])
                  = ReportsFor(j, procLog[j][Len(procLog[j])])

\* Events have been processed to the end with no report, with one report
\* and with two reports.
C17_Witness ==
    \A n \in {0, 1, 2} :
        \E j \in Procs :
            \E k \in 1..Len(procLog[j]) :
                /\ k < Len(procLog[j]) \/ proc[j].pc = "read"
                /\ ReportsFor(j, procLog[j][k]) = n
                /\ CountFor(j, procLog[j][k]) = n

\* ---- C18 ----
\* The nesting of a composition with its leaves replaced by their places
\* in the argument list.
RECURSIVE Shape(_)
Shape(t) ==
    IF t.node = "leaf" THEN [node |-> "leaf", at |-> t.inst[2]]
    ELSE [node |-> "join", fut1 |-> Shape(t.fut1), fut2 |-> Shape(t.fut2)]

\* C18: run_devices! and run_processors! build the same composition: over
\* the leaf list of either root the two expansions give the same tree, the
\* tree that runs; the same leaves to poll and the same completion for the
\* leaves done so far; and for equally long lists the device tree and the
\* processor tree have the same nesting.
C18_SameComposition ==
    /\ \A r \in Roots :
          LET L == RootList(r) IN
          /\ run_devices(L) = run_processors(L)
          /\ tree[r] = run_devices(L)
          /\ tree[r] = run_processors(L)
          /\ PollOrder(run_devices(L), done) = PollOrder(run_processors(L), done)
          /\ IsDone(run_devices(L), done) <=> IsDone(run_processors(L), done)
          /\ (active = "none" /\ r \notin rootDone) =>
                Range(PollOrder(run_processors(L), done)) = Range(L) \ done
    /\ Len(devCfg) = Len(proc) => Shape(tree["devices"]) = Shape(tree["processors"])

\* Equally long lists of three or more leaves, a device done, and the
\* processors being polled on the schedule run_devices! gives for them.
C18_Witness ==
    /\ Len(devCfg) = Len(proc)
    /\ Len(proc) >= 3
    /\ \E i \in Devs : D(i) \in done
    /\ active = "processors"
    /\ Len(agenda) >= 2
    /\ agenda = PollOrder(run_devices(RootList("processors")), done)

\* ---- C19 ----
\* The number of join nodes on the way from the root of t to the leaf x.
RECURSIVE Depth(_, _)
Depth(t, x) ==
    IF t.node = "leaf" THEN 0
    ELSE IF x \in Range(LeavesOf(t.fut1)) THEN 1 + Depth(t.fut1, x)
    ELSE 1 + Depth(t.fut2, x)

\* t is the right-nested pairing of the list L.
RECURSIVE IsRightNested(_, _)
IsRightNested(t, L) ==
    IF Len(L) = 1 THEN t = Leaf(L[1])
    ELSE /\ t.node = "join"
         /\ t.fut1 = Leaf(L[1])
         /\ IsRightNested(t.fut2, Tail(L))

Min(a, b) == IF a <= b THEN a ELSE b

\* C19: the composition of n leaves is the right-nested pairing
\* Join(t1, Combine([t2..tn])): it has n-1 join nodes and leaf i lies
\* under min(i, n-1) of them.
C19_RightNested ==
    \A r \in Roots :
        LET L == RootList(r)
            n == Len(L) IN
        /\ IsRightNested(tree[r], L)
        /\ JoinCount(tree[r]) = n - 1
        /\ \A i \in 1..n : Depth(tree[r], L[i]) = Min(i, n - 1)

\* The longest list: its last leaf lies under MaxLeaves - 1 joins, and a
\* poll has come to it.
C19_Witness ==
    /\ Len(devCfg) = MaxLeaves
    /\ Depth(tree["devices"], D(MaxLeaves)) = MaxLeaves - 1
    /\ Depth(tree["devices"], D(1)) = 1
    /\ active = "devices"
    /\ agenda = <<D(MaxLeaves)>>

\* ---- C12 ----
\* Device a becomes ready to emit before device b: its event is due at an
\* earlier poll cycle, or at the same one with a earlier in the argument list.
ReadyFirst(a, b) ==
    \/ devCfg[a].delay < devCfg[b].delay
    \/ devCfg[a].delay = devCfg[b].delay /\ a < b

\* C12: across devices the order of delivery is not fixed by the
\* composition: each device calls send_event at the poll cycle at which its
\* event is due, and of two events in one channel, or read by one processor,
\* the first is the one of the device that became ready first.
C12_OrderFollowsReadiness ==
    \A a \in Devs, b \in Devs :
        a # b =>
            /\ sendLog[a] # <<>> => sendLog[a][1].poll = devCfg[a].delay
            /\ (sendLog[a] # <<>> /\ sendLog[b] # <<>> /\ ReadyFirst(a, b)) =>
                  sendLog[a][1].poll <= sendLog[b][1].poll
            /\ \A j \in Procs :
                  /\ (Place(accepted[j], <<a, 1>>) > 0 /\ Place(accepted[j], <<b, 1>>) > 0) =>
                        (Place(accepted[j], <<a, 1>>) < Place(accepted[j], <<b, 1>>)
                            <=> ReadyFirst(a, b))
                  /\ (Place(readLog[j], <<a, 1>>) > 0 /\ Place(readLog[j], <<b, 1>>) > 0) =>
                        (Place(readLog[j], <<a, 1>>) < Place(readLog[j], <<b, 1>>)
                            <=> ReadyFirst(a, b))
                  /\ (Place(accepted[j], <<a, 1>>) = 0 /\ Place(accepted[j], <<b, 1>>) > 0
                        /\ devCfg[a].chan = j) => ReadyFirst(b, a)

\* The event of D1 has been delivered before the event of D2 (the other
\* order, reached when D1 is ready first).
C12_D1First ==
    /\ Len(devCfg) = 2
    /\ \E j \in Procs : readLog[j] = <<<<1, 1>>, <<2, 1>>>>

\* The event of D2 has been delivered before the event of D1.
C12_Witness ==
    /\ Len(devCfg) = 2
    /\ \E j \in Procs : readLog[j] = <<<<2, 1>>, <<1, 1>>>>

\* ---- C13 ----
\* C13: once the poll of a device has entered a loop that never yields, it
\* stays there, and every step leaves all other leaves where they were:
\* no other device and no processor moves, nothing is sent, read or
\* reported, no leaf is polled or returns, and the composed poll neither
\* goes on to its next leaf nor returns to the executor.
C13_SpinStarvesAll ==
    [][\A i \in Devs :
          dev[i].pc = "spin" =>
              /\ dev'[i].pc = "spin"
              /\ \A k \in Devs \ {i} : dev'[k] = dev[k]
              /\ UNCHANGED <<proc, chan, sink, active, agenda, polls, done, rootDone,
                             polled, doneAt, leafRes, rootRes, sendLog, accepted,
                             readLog, procLog, reports>>
      ]_vars

\* A device has gone round its loop MaxSpin times while the next leaf of
\* the same poll waits behind it and a processor has an event waiting that
\* it will never read.
C13_Witness ==
    \E i \in Devs :
        /\ dev[i].pc = "spin"
        /\ dev[i].spins = MaxSpin
        /\ Head(agenda) = D(i)
        /\ Len(agenda) >= 2
        /\ polled[agenda[2]] < polls["devices"]
        /\ \E j \in Procs : chan[j] # <<>> /\ proc[j].pc = "read"

====
